---- MODULE Spec2Model ----
(***************************************************************************)
(* A model of the tokencounter middleware (package tokencounter): the      *)
(* TokenCounter.ServeHTTP gate, the responseWriter that wraps the client's *)
(* http.ResponseWriter, the accounting decision taken after the upstream   *)
(* handler returns, and the token estimator.                               *)
(*                                                                         *)
(* Text is a sequence of one-character strings, so that the estimator can  *)
(* scan it and strconv.Itoa has something to produce.  A request or a      *)
(* response body is a sequence of JSON lexemes, each a record [t, s]: t is *)
(* the lexeme's kind (a brace, or the key of a field) and s the text of    *)
(* its value.  encoding/json is modelled by decoders over such sequences.  *)
(***************************************************************************)
EXTENDS Integers, Sequences, FiniteSets, TLC

\* ------------------------------------------------------------------ bounds
\* How many times the upstream handler may call Header().Set, WriteHeader
\* and Write during one exchange, and how many lexemes a partial Write
\* carries.
MaxHeaderSets == 1
MaxWriteHeaders == 2
MaxWrites == 2
ChunkLen == 1
MaxTextLen == 3
MaxParts == 2
MaxCalls == 2
MaxMessages == 2

\* ------------------------------------------------------- program constants
StatusOK == 200
ImageTokens == 85
MessageOverhead == 4
RequestOverhead == 2
\* The factor 1.33 of estimateTokens, as the fraction 133/100.
FactorNum == 133
FactorDen == 100

\* --------------------------------------------------------------- text
LowerLetters == {"a", "b", "h", "i", "o", "y"}
UpperLetters == {"B", "H"}
Digits == {"0", "1", "2", "3", "4", "5", "6", "7", "8", "9"}

\* Header names are keys; header values are text.  Header().Get returns ""
\* for a header that is not set.
DefaultRequestTokenHeader == "X-Request-Token-Count"
DefaultResponseTokenHeader == "X-Response-Token-Count"
CacheStatusHeader == "X-Cache-Status"
ContentTypeHeader == "Content-Type"
Hit == <<"H", "i", "t">>
NoValue == <<>>
MethodPost == "POST"
\* A URL path is the sequence of its segments; "/chat/completions" is two
\* adjacent segments.
RouteFragment == <<"chat", "completions">>

\* unicode.IsLetter, unicode.IsDigit on the characters of the model.
IsLetter(r) == r \in LowerLetters \cup UpperLetters

IsDigit(r) == r \in Digits

\* strings.ToLower, character by character.
ToLowerRune(r) ==
    CASE r = "B" -> "b"
      [] r = "H" -> "h"
      [] OTHER -> r

ToLower(text) == [i \in 1..Len(text) |-> ToLowerRune(text[i])]

CountWords_EveryCharacter(text, i, inWord) ==
    Cardinality({j \in i..Len(text) : IsLetter(text[j]) \/ IsDigit(text[j])})

\* The loop of estimateTokens: the number of runs of letters and digits in
\* text[i..], given whether text[i-1] was inside a run.
RECURSIVE CountWords(_, _, _)
CountWords(text, i, inWord) ==
    IF i > Len(text) THEN 0
    ELSE IF IsLetter(text[i]) \/ IsDigit(text[i])
         THEN (IF inWord THEN 0 ELSE 1) + CountWords(text, i + 1, TRUE)
         ELSE CountWords(text, i + 1, FALSE)

\* int(float64(words) * 1.33): the product truncated toward zero (words is
\* never negative).  For the word counts of the model the double product
\* truncates to the same integer as 133 * words / 100.
Scale(words) == (words * FactorNum) \div FactorDen

estimateTokens_NoClamp(text) ==
    IF text = <<>> THEN 0 ELSE Scale(CountWords(ToLower(text), 1, FALSE))

estimateTokens(text) ==
    IF text = <<>> THEN 0
    ELSE LET tokens == Scale(CountWords(ToLower(text), 1, FALSE))
         IN  IF tokens = 0 /\ Len(text) > 0 THEN 1 ELSE tokens

\* ------------------------------------------------------------ strconv
DigitChar(d) ==
    CASE d = 0 -> "0" [] d = 1 -> "1" [] d = 2 -> "2" [] d = 3 -> "3"
      [] d = 4 -> "4" [] d = 5 -> "5" [] d = 6 -> "6" [] d = 7 -> "7"
      [] d = 8 -> "8" [] d = 9 -> "9"

DigitVal(c) ==
    CASE c = "0" -> 0 [] c = "1" -> 1 [] c = "2" -> 2 [] c = "3" -> 3
      [] c = "4" -> 4 [] c = "5" -> 5 [] c = "6" -> 6 [] c = "7" -> 7
      [] c = "8" -> 8 [] c = "9" -> 9

RECURSIVE NatDigits(_)
NatDigits(n) ==
    IF n < 10 THEN <<DigitChar(n)>>
    ELSE Append(NatDigits(n \div 10), DigitChar(n % 10))

\* strconv.Itoa
Itoa(n) == IF n < 0 THEN <<"-">> \o NatDigits(0 - n) ELSE NatDigits(n)

RECURSIVE DigitsVal(_, _)
DigitsVal(s, acc) ==
    IF s = <<>> THEN acc
    ELSE DigitsVal(Tail(s), acc * 10 + DigitVal(Head(s)))

AllDigits(s) == s # <<>> /\ \A i \in 1..Len(s) : s[i] \in Digits

\* A JSON number decoded into a Go int: an optional minus sign and digits;
\* anything else is an error of json.Unmarshal.
IsIntText(s) ==
    IF s # <<>> /\ Head(s) = "-" THEN AllDigits(Tail(s)) ELSE AllDigits(s)

IntOfText(s) ==
    IF Head(s) = "-" THEN 0 - DigitsVal(Tail(s), 0) ELSE DigitsVal(s, 0)

\* ------------------------------------------------------ encoding/json
Lex(t, s) == [t |-> t, s |-> s]

LBrace == Lex("{", <<>>)

RBrace == Lex("}", <<>>)

\* A message content value (MessageContent, an interface{}): nil, a string,
\* a []interface{} of parts, or another JSON value.  A part is a JSON object
\* (isMap) with an optional "type" and an optional "text", or a scalar.
NilContent == [kind |-> "nil", text |-> <<>>, parts |-> <<>>]

StringContent(s) == [kind |-> "string", text |-> s, parts |-> <<>>]

OtherContent == [kind |-> "other", text |-> <<>>, parts |-> <<>>]

PartsContent(ps) == [kind |-> "parts", text |-> <<>>, parts |-> ps]

Part(isMap, type, textKind, text) ==
    [isMap |-> isMap, type |-> type, textKind |-> textKind, text |-> text]

\* The part a lexeme of a content array decodes to.
PartOfLexeme(l) ==
    CASE l.t = "part:text" -> Part(TRUE, "text", "string", l.s)
      [] l.t = "part:text-nostring" -> Part(TRUE, "text", "other", <<>>)
      [] l.t = "part:text-notext" -> Part(TRUE, "text", "absent", <<>>)
      [] l.t = "part:image_url" -> Part(TRUE, "image_url", "absent", <<>>)
      [] l.t = "part:other" -> Part(TRUE, "input_audio", "absent", <<>>)
      [] l.t = "part:notype" -> Part(TRUE, "", "string", l.s)
      [] OTHER -> Part(FALSE, "", "absent", <<>>)

PartLexemes ==
    {"part:text", "part:text-nostring", "part:text-notext", "part:image_url",
     "part:other", "part:notype", "part:scalar"}

EmptyRequest == [Model |-> <<>>, Messages |-> <<>>]

ParseError == [ok |-> FALSE, req |-> EmptyRequest]

SetLastContent(req, c) ==
    [req EXCEPT !.Messages[Len(req.Messages)].Content = c]

\* json.Unmarshal(body, &openAIReq) on the fields between the braces: the
\* fields of SimpleRequest are filled in order, a field of the wrong JSON
\* type or a lexeme that is no JSON is an error.
RECURSIVE DecodeRequestFields(_, _)
DecodeRequestFields(rest, req) ==
    IF rest = <<>> THEN [ok |-> TRUE, req |-> req]
    ELSE LET l == Head(rest)
             n == Len(req.Messages)
         IN  CASE l.t = "model" ->
                    DecodeRequestFields(Tail(rest), [req EXCEPT !.Model = l.s])
               [] l.t = "role" ->
                    DecodeRequestFields(Tail(rest),
                        [req EXCEPT !.Messages =
                            Append(@, [Role |-> l.s, Content |-> NilContent])])
               [] l.t = "content" /\ n > 0 ->
                    DecodeRequestFields(Tail(rest),
                        SetLastContent(req, StringContent(l.s)))
               [] l.t = "content:null" /\ n > 0 ->
                    DecodeRequestFields(Tail(rest),
                        SetLastContent(req, NilContent))
               [] l.t = "content:number" /\ n > 0 ->
                    DecodeRequestFields(Tail(rest),
                        SetLastContent(req, OtherContent))
               [] l.t = "content:[" /\ n > 0 ->
                    DecodeRequestFields(Tail(rest),
                        SetLastContent(req, PartsContent(<<>>)))
               [] l.t \in PartLexemes /\ n > 0
                    /\ req.Messages[n].Content.kind = "parts" ->
                    DecodeRequestFields(Tail(rest),
                        SetLastContent(req,
                            PartsContent(Append(req.Messages[n].Content.parts,
                                                PartOfLexeme(l)))))
               [] OTHER -> ParseError

UnmarshalRequest(body) ==
    IF Len(body) < 2 \/ body[1] # LBrace \/ body[Len(body)] # RBrace
    THEN ParseError
    ELSE DecodeRequestFields(SubSeq(body, 2, Len(body) - 1), EmptyRequest)

ZeroUsage == [PromptTokens |-> 0, CompletionTokens |-> 0, TotalTokens |-> 0]

ResponseError == [ok |-> FALSE, resp |-> [Usage |-> ZeroUsage]]

\* json.Unmarshal(respWriter.body.Bytes(), &simpleResp): only the usage
\* numbers are kept; a field SimpleResponse does not declare (the choices)
\* is skipped; a count that is no integer, or a lexeme that is no JSON, is
\* an error.
RECURSIVE DecodeResponseFields(_, _)
DecodeResponseFields(rest, usage) ==
    IF rest = <<>> THEN [ok |-> TRUE, resp |-> [Usage |-> usage]]
    ELSE LET l == Head(rest)
         IN  CASE l.t = "prompt_tokens" /\ IsIntText(l.s) ->
                    DecodeResponseFields(Tail(rest),
                        [usage EXCEPT !.PromptTokens = IntOfText(l.s)])
               [] l.t = "completion_tokens" /\ IsIntText(l.s) ->
                    DecodeResponseFields(Tail(rest),
                        [usage EXCEPT !.CompletionTokens = IntOfText(l.s)])
               [] l.t = "total_tokens" /\ IsIntText(l.s) ->
                    DecodeResponseFields(Tail(rest),
                        [usage EXCEPT !.TotalTokens = IntOfText(l.s)])
               [] l.t = "choice:content" ->
                    DecodeResponseFields(Tail(rest), usage)
               [] OTHER -> ResponseError

UnmarshalResponse(body) ==
    IF Len(body) < 2 \/ body[1] # LBrace \/ body[Len(body)] # RBrace
    THEN ResponseError
    ELSE DecodeResponseFields(SubSeq(body, 2, Len(body) - 1), ZeroUsage)

\* ------------------------------------------------------- the estimates
PartTokens_ImageFree(p) ==
    IF p.isMap /\ p.type = "text" /\ p.textKind = "string"
    THEN estimateTokens(p.text) ELSE 0

\* One item of a content array, as estimateTokensFromContent counts it.
PartTokens(p) ==
    IF ~p.isMap THEN 0
    ELSE IF p.type = "text"
         THEN (IF p.textKind = "string" THEN estimateTokens(p.text) ELSE 0)
         ELSE IF p.type = "image_url" THEN ImageTokens ELSE 0

RECURSIVE SumParts(_)
SumParts(ps) ==
    IF ps = <<>> THEN 0 ELSE PartTokens(Head(ps)) + SumParts(Tail(ps))

estimateTokensFromContent(content) ==
    CASE content.kind = "nil" -> 0
      [] content.kind = "string" -> estimateTokens(content.text)
      [] content.kind = "parts" -> SumParts(content.parts)
      [] OTHER -> 0

RECURSIVE SumMessages(_)
SumMessages(ms) ==
    IF ms = <<>> THEN 0
    ELSE estimateTokensFromContent(Head(ms).Content)
         + estimateTokens(Head(ms).Role) + MessageOverhead
         + SumMessages(Tail(ms))

countRequestTokens_NoOverhead(req) ==
    SumMessages(req.Messages) + estimateTokens(req.Model)

countRequestTokens(req) ==
    SumMessages(req.Messages) + estimateTokens(req.Model) + RequestOverhead

countResponseTokens(resp) == resp.Usage.CompletionTokens

\* ------------------------------------------------------------- inputs
CustomRequestTokenHeader == "X-Request-Tokens"
CustomResponseTokenHeader == "X-Response-Tokens"

\* The Config values New is given: the zero Config, and the test's.
Configs ==
    {[RequestTokenHeader |-> "", ResponseTokenHeader |-> ""],
     [RequestTokenHeader |-> CustomRequestTokenHeader,
      ResponseTokenHeader |-> CustomResponseTokenHeader]}

HeaderNames ==
    {DefaultRequestTokenHeader, DefaultResponseTokenHeader,
     CustomRequestTokenHeader, CustomResponseTokenHeader,
     CacheStatusHeader, ContentTypeHeader}

Methods == {"POST", "GET"}

Paths == {<<"health">>, <<"v1", "chat", "completions">>}

\* Request bodies a client sends: a chat request with one plain message, one
\* with a message of parts and no model, an empty JSON object, a body that
\* is cut before its closing brace, and one whose model is a number.
RequestBodies ==
    {<<LBrace, Lex("model", <<"b", "1">>), Lex("role", <<"a">>),
       Lex("content", <<"H", "i", " ", "y", "o">>), RBrace>>,
     <<LBrace, Lex("role", <<"a">>), Lex("content:[", <<>>),
       Lex("part:text", <<"h", "i">>), Lex("part:image_url", <<>>), RBrace>>,
     <<LBrace, RBrace>>,
     <<LBrace, Lex("model", <<"b", "1">>)>>,
     <<LBrace, Lex("model:number", <<"1">>), RBrace>>}

UsageFields(p, c, t) ==
    <<Lex("prompt_tokens", p), Lex("completion_tokens", c),
      Lex("total_tokens", t)>>

Choice == <<Lex("choice:content", <<"H", "i", " ", "y", "o">>)>>

\* Response bodies the upstream handler sets out to write: usage 15/25/40,
\* usage 0/0/0 (a cached answer), usage 15/0/15, negative counts, no usage
\* at all, a body that is no JSON, and nothing.  A body that is not written
\* to its end is no JSON either.
ResponseBodies ==
    {<<LBrace>> \o UsageFields(<<"1", "5">>, <<"2", "5">>, <<"4", "0">>)
         \o Choice \o <<RBrace>>,
     <<LBrace>> \o UsageFields(<<"0">>, <<"0">>, <<"0">>)
         \o Choice \o <<RBrace>>,
     <<LBrace>> \o UsageFields(<<"1", "5">>, <<"0">>, <<"1", "5">>)
         \o <<RBrace>>,
     <<LBrace>> \o UsageFields(<<"-", "1">>, <<"-", "2">>, <<"-", "3">>)
         \o <<RBrace>>,
     <<LBrace>> \o Choice \o <<RBrace>>,
     <<Lex("<html>", <<>>)>>,
     <<>>}

StatusCodes == {StatusOK, 500}

\* The headers the upstream handler (or a cache in front of it) may set.
UpstreamHeaders ==
    {<<CacheStatusHeader, Hit>>,
     <<CacheStatusHeader, <<"M", "i", "s", "s">>>>,
     <<CacheStatusHeader, <<"h", "i", "t">>>>,
     <<CacheStatusHeader, <<"H", "I", "T">>>>,
     <<ContentTypeHeader, <<"j", "s", "o", "n">>>>}

\* ------------------------------------------------------------- state
VARIABLES
    tc,          \* the TokenCounter New returned: its two header names
    req,         \* the *http.Request: Method, Path, Body (a stream)
    clientBody,  \* the stream the client sent, as it was on arrival
    pc,          \* where ServeHTTP is: start, upstream (inside next), done
    branch,      \* the path ServeHTTP took
    nextCalls,   \* how many times tc.next.ServeHTTP was called
    nextSink,    \* the writer next was given: none, rw or respWriter
    nextBody,    \* what next could read from req.Body when it was called
    bodyReads,   \* how many times ServeHTTP read req.Body
    openAIReq,   \* the SimpleRequest decoded from the body
    respWriter,  \* the responseWriter: its body buffer and statusCode
    rw,          \* the client's http.ResponseWriter
    direct,      \* the same writer had next written to it directly
    coreSets,    \* the Header().Set calls ServeHTTP made, in order
    up,          \* the upstream handler: what it has yet to write, its calls
    call,        \* a call of one of the estimators: its argument, its result
    inflight,    \* ServeHTTP calls running at once on tc, one per goroutine
    buffers      \* the bytes.Buffer values those calls allocated, by address

vars ==
    <<tc, req, clientBody, pc, branch, nextCalls, nextSink, nextBody,
      bodyReads, openAIReq, respWriter, rw, direct, coreSets, up, call,
      inflight, buffers>>

\* ------------------------------------------- the client's ResponseWriter
\* An http.ResponseWriter: a header map that stays writable, and the status
\* line, header block and body that have gone out.  The header block goes
\* out with the status, on the first WriteHeader or the first Write; a later
\* WriteHeader changes nothing, and a later Header().Set changes only the
\* map.
NewSink ==
    [header |-> [h \in HeaderNames |-> NoValue],
     wroteHeader |-> FALSE, status |-> 0,
     sentHeader |-> [h \in HeaderNames |-> NoValue],
     body |-> <<>>, writeHeaderCalls |-> 0, writeCalls |-> 0]

SinkCommit(sink, code) ==
    IF sink.wroteHeader THEN sink
    ELSE [sink EXCEPT !.wroteHeader = TRUE, !.status = code,
                      !.sentHeader = sink.header]

SinkWriteHeader(sink, code) ==
    [SinkCommit(sink, code) EXCEPT !.writeHeaderCalls = @ + 1]

SinkWrite(sink, b) ==
    [SinkCommit(sink, StatusOK) EXCEPT !.body = @ \o b, !.writeCalls = @ + 1]

SinkSetHeader(sink, name, value) == [sink EXCEPT !.header[name] = value]

\* ------------------------------------------------------ responseWriter
NewResponseWriter_ZeroStatus == [body |-> <<>>, statusCode |-> 0]

NewResponseWriter == [body |-> <<>>, statusCode |-> StatusOK]

\* responseWriter.WriteHeader and responseWriter.Write: the pair of the
\* responseWriter and the embedded ResponseWriter after the call.
responseWriter_WriteHeader(w, sink, code) ==
    [w |-> [w EXCEPT !.statusCode = code], sink |-> SinkWriteHeader(sink, code)]

responseWriter_Write_BufferOnly(w, sink, b) ==
    [w |-> [w EXCEPT !.body = @ \o b], sink |-> sink]

responseWriter_Write(w, sink, b) ==
    [w |-> [w EXCEPT !.body = @ \o b], sink |-> SinkWrite(sink, b)]

\* ------------------------------------------------------------- New
New(config) ==
    [requestTokenHeader |->
         IF config.RequestTokenHeader = "" THEN DefaultRequestTokenHeader
         ELSE config.RequestTokenHeader,
     responseTokenHeader |->
         IF config.ResponseTokenHeader = "" THEN DefaultResponseTokenHeader
         ELSE config.ResponseTokenHeader]

\* ------------------------------------------------- ServeHTTP, before next
\* strings.Contains(req.URL.Path, "/chat/completions")
Contains(path, frag) ==
    \E i \in 1..Len(path) :
        /\ i + Len(frag) - 1 <= Len(path)
        /\ SubSeq(path, i, i + Len(frag) - 1) = frag

\* req.Method != http.MethodPost
BypassMethod(r) == r.Method # MethodPost

BypassPath_Never(r) == FALSE

\* !strings.Contains(req.URL.Path, "/chat/completions")
BypassPath(r) == ~Contains(r.Path, RouteFragment)

\* io.ReadAll(req.Body): the bytes read, whether the read failed, and the
\* stream as it is left.
ReadAll(stream) ==
    [data |-> stream.buf, err |-> stream.err,
     rest |-> [buf |-> <<>>, err |-> stream.err]]

NopCloserBuffer_Empty(body) == [buf |-> <<>>, err |-> FALSE]

\* io.NopCloser(bytes.NewBuffer(body))
NopCloserBuffer(body) == [buf |-> body, err |-> FALSE]

Gate_AccountOnParseError(r) ==
    IF BypassMethod(r)
    THEN [branch |-> "bypass_method", req |-> r, openAIReq |-> EmptyRequest,
          wrap |-> FALSE, reads |-> 0]
    ELSE IF BypassPath(r)
    THEN [branch |-> "bypass_path", req |-> r, openAIReq |-> EmptyRequest,
          wrap |-> FALSE, reads |-> 0]
    ELSE LET rd == ReadAll(r.Body)
         IN  IF rd.err
             THEN [branch |-> "read_error", req |-> [r EXCEPT !.Body = rd.rest],
                   openAIReq |-> EmptyRequest, wrap |-> FALSE, reads |-> 1]
             ELSE [branch |-> "captured",
                   req |-> [r EXCEPT !.Body = NopCloserBuffer(rd.data)],
                   openAIReq |-> UnmarshalRequest(rd.data).req,
                   wrap |-> TRUE, reads |-> 1]

\* ServeHTTP up to its call of next: the path taken, the request as next
\* receives it, the decoded SimpleRequest, whether next gets the
\* responseWriter, and how many times the body was read.
Gate(r) ==
    IF BypassMethod(r)
    THEN [branch |-> "bypass_method", req |-> r, openAIReq |-> EmptyRequest,
          wrap |-> FALSE, reads |-> 0]
    ELSE IF BypassPath(r)
    THEN [branch |-> "bypass_path", req |-> r, openAIReq |-> EmptyRequest,
          wrap |-> FALSE, reads |-> 0]
    ELSE LET rd == ReadAll(r.Body)
         IN  IF rd.err
             THEN [branch |-> "read_error", req |-> [r EXCEPT !.Body = rd.rest],
                   openAIReq |-> EmptyRequest, wrap |-> FALSE, reads |-> 1]
             ELSE LET r2 == [r EXCEPT !.Body = NopCloserBuffer(rd.data)]
                      parsed == UnmarshalRequest(rd.data)
                  IN  IF ~parsed.ok
                      THEN [branch |-> "parse_error", req |-> r2,
                            openAIReq |-> EmptyRequest, wrap |-> FALSE,
                            reads |-> 1]
                      ELSE [branch |-> "captured", req |-> r2,
                            openAIReq |-> parsed.req, wrap |-> TRUE,
                            reads |-> 1]

\* ------------------------------------------------- ServeHTTP, after next
Set(name, value) == [name |-> name, value |-> value]

setEstimatedTokens(t, r, resp) ==
    <<Set(t.requestTokenHeader, Itoa(countRequestTokens(r))),
      Set(t.responseTokenHeader, Itoa(countResponseTokens(resp)))>>

setActualTokens_NotNegative(t, resp) ==
    (IF resp.Usage.PromptTokens >= 0
     THEN <<Set(t.requestTokenHeader, Itoa(resp.Usage.PromptTokens))>>
     ELSE <<>>)
    \o (IF resp.Usage.CompletionTokens >= 0
        THEN <<Set(t.responseTokenHeader, Itoa(resp.Usage.CompletionTokens))>>
        ELSE <<>>)

setActualTokens(t, resp) ==
    (IF resp.Usage.PromptTokens > 0
     THEN <<Set(t.requestTokenHeader, Itoa(resp.Usage.PromptTokens))>>
     ELSE <<>>)
    \o (IF resp.Usage.CompletionTokens > 0
        THEN <<Set(t.responseTokenHeader, Itoa(resp.Usage.CompletionTokens))>>
        ELSE <<>>)

\* ServeHTTP from the return of next: the path taken and the Header().Set
\* calls made, given the responseWriter and the header map it shares with
\* the client's writer.
Account(t, r, w, header) ==
    IF w.statusCode # StatusOK
    THEN [branch |-> "non_ok", sets |-> <<>>]
    ELSE LET parsed == UnmarshalResponse(w.body)
         IN  IF ~parsed.ok
             THEN [branch |-> "unparseable", sets |-> <<>>]
             ELSE IF header[CacheStatusHeader] = Hit
                  THEN [branch |-> "estimated",
                        sets |-> setEstimatedTokens(t, r, parsed.resp)]
                  ELSE [branch |-> "actual",
                        sets |-> setActualTokens(t, parsed.resp)]

RECURSIVE ApplySets(_, _)
ApplySets(sink, sets) ==
    IF sets = <<>> THEN sink
    ELSE ApplySets(SinkSetHeader(sink, Head(sets).name, Head(sets).value),
                   Tail(sets))

\* ------------------------------------------------------------ actions
NotCalled == [buf |-> <<>>, err |-> FALSE]

\* No estimator call is being followed.
NoCall ==
    [fn |-> "none", text |-> <<>>, content |-> NilContent,
     req |-> EmptyRequest, result |-> 0, header |-> NoValue,
     returned |-> FALSE]

\* The TokenCounter New(c) returned and a request that has just arrived.
Arrival(c, m, p, b, e) ==
    /\ tc = New(c)
    /\ req = [Method |-> m, Path |-> p, Body |-> [buf |-> b, err |-> e]]
    /\ clientBody = [buf |-> b, err |-> e]
    /\ pc = "start"
    /\ branch = "none"
    /\ nextCalls = 0
    /\ nextSink = "none"
    /\ nextBody = NotCalled
    /\ bodyReads = 0
    /\ openAIReq = EmptyRequest
    /\ respWriter = NewResponseWriter
    /\ rw = NewSink
    /\ direct = NewSink
    /\ coreSets = <<>>
    /\ up = [pending |-> <<>>, headerSets |-> 0, writeHeaders |-> 0,
             writes |-> 0]

Init ==
    \E c \in Configs, m \in Methods, p \in Paths, b \in RequestBodies,
       e \in BOOLEAN :
        /\ Arrival(c, m, p, b, e)
        /\ call = NoCall
        /\ inflight = <<>>
        /\ buffers = <<>>

CallNext_SkipOnBypass(writer, r) ==
    /\ nextCalls' = (IF writer = "rw" THEN nextCalls ELSE nextCalls + 1)
    /\ nextSink' = writer
    /\ nextBody' = r.Body
    /\ pc' = (IF writer = "rw" THEN "done" ELSE "upstream")

\* tc.next.ServeHTTP(writer, r): control passes to the upstream handler,
\* which can read r.Body as it is now.
CallNext(writer, r) ==
    /\ nextCalls' = nextCalls + 1
    /\ nextSink' = writer
    /\ nextBody' = r.Body
    /\ pc' = "upstream"

\* ServeHTTP from its entry to its call of next.
ServeHTTP ==
    /\ pc = "start"
    /\ LET g == Gate(req)
       IN  /\ req' = g.req
           /\ branch' = g.branch
           /\ openAIReq' = g.openAIReq
           /\ bodyReads' = bodyReads + g.reads
           /\ CallNext(IF g.wrap THEN "respWriter" ELSE "rw", g.req)
    /\ \E b \in ResponseBodies : up' = [up EXCEPT !.pending = b]
    /\ UNCHANGED <<inflight, buffers, call, tc, clientBody, respWriter, rw, direct, coreSets>>

\* The upstream handler calls w.Header().Set: the responseWriter has no
\* header map of its own, Header() is the embedded writer's.
UpstreamSetHeader ==
    /\ pc = "upstream"
    /\ up.headerSets < MaxHeaderSets
    /\ \E h \in UpstreamHeaders :
        /\ rw' = SinkSetHeader(rw, h[1], h[2])
        /\ direct' = SinkSetHeader(direct, h[1], h[2])
    /\ up' = [up EXCEPT !.headerSets = @ + 1]
    /\ UNCHANGED <<inflight, buffers, call, tc, req, clientBody, pc, branch, nextCalls, nextSink,
                   nextBody, bodyReads, openAIReq, respWriter, coreSets>>

\* The upstream handler calls w.WriteHeader(code).
UpstreamWriteHeader ==
    /\ pc = "upstream"
    /\ up.writeHeaders < MaxWriteHeaders
    /\ \E code \in StatusCodes :
        /\ IF nextSink = "respWriter"
           THEN LET r == responseWriter_WriteHeader(respWriter, rw, code)
                IN  respWriter' = r.w /\ rw' = r.sink
           ELSE respWriter' = respWriter /\ rw' = SinkWriteHeader(rw, code)
        /\ direct' = SinkWriteHeader(direct, code)
    /\ up' = [up EXCEPT !.writeHeaders = @ + 1]
    /\ UNCHANGED <<inflight, buffers, call, tc, req, clientBody, pc, branch, nextCalls, nextSink,
                   nextBody, bodyReads, openAIReq, coreSets>>

\* The sizes of the next Write: a chunk of ChunkLen lexemes, or all that is
\* left.
WriteSizes(pending) ==
    {n \in {ChunkLen, Len(pending)} : n >= 1 /\ n <= Len(pending)}

\* The upstream handler calls w.Write(b).
UpstreamWrite ==
    /\ pc = "upstream"
    /\ up.writes < MaxWrites
    /\ \E n \in WriteSizes(up.pending) :
        LET b == SubSeq(up.pending, 1, n)
        IN  /\ IF nextSink = "respWriter"
               THEN LET r == responseWriter_Write(respWriter, rw, b)
                    IN  respWriter' = r.w /\ rw' = r.sink
               ELSE respWriter' = respWriter /\ rw' = SinkWrite(rw, b)
            /\ direct' = SinkWrite(direct, b)
            /\ up' = [up EXCEPT !.pending = SubSeq(@, n + 1, Len(@)),
                                !.writes = @ + 1]
    /\ UNCHANGED <<inflight, buffers, call, tc, req, clientBody, pc, branch, nextCalls, nextSink,
                   nextBody, bodyReads, openAIReq, coreSets>>

\* next returns on a bypass path: ServeHTTP returns at once.
ReturnBypass ==
    /\ pc = "upstream"
    /\ nextSink = "rw"
    /\ pc' = "done"
    /\ UNCHANGED <<inflight, buffers, call, tc, req, clientBody, branch, nextCalls, nextSink,
                   nextBody, bodyReads, openAIReq, respWriter, rw, direct,
                   coreSets, up>>

ReturnCaptured_AbortOnBadJSON ==
    /\ pc = "upstream"
    /\ nextSink = "respWriter"
    /\ respWriter.statusCode = StatusOK => UnmarshalResponse(respWriter.body).ok
    /\ LET a == Account(tc, openAIReq, respWriter, rw.header)
       IN  /\ branch' = a.branch
           /\ coreSets' = coreSets \o a.sets
           /\ rw' = ApplySets(rw, a.sets)
    /\ pc' = "done"
    /\ UNCHANGED <<inflight, buffers, call, tc, req, clientBody, nextCalls,
                   nextSink, nextBody, bodyReads, openAIReq, respWriter,
                   direct, up>>

\* next returns to the accounting: ServeHTTP from there to its return.
ReturnCaptured ==
    /\ pc = "upstream"
    /\ nextSink = "respWriter"
    /\ LET a == Account(tc, openAIReq, respWriter, rw.header)
       IN  /\ branch' = a.branch
           /\ coreSets' = coreSets \o a.sets
           /\ rw' = ApplySets(rw, a.sets)
    /\ pc' = "done"
    /\ UNCHANGED <<inflight, buffers, call, tc, req, clientBody, nextCalls, nextSink, nextBody,
                   bodyReads, openAIReq, respWriter, direct, up>>

Next ==
    \/ ServeHTTP
    \/ UpstreamSetHeader
    \/ UpstreamWriteHeader
    \/ UpstreamWrite
    \/ ReturnBypass
    \/ ReturnCaptured

Spec == Init /\ [][Next]_vars

\* The goroutine of the request keeps running, and the call of next returns:
\* ServeHTTP starts, and once inside next it comes back from it and runs the
\* straight-line code that follows.  Nothing is assumed of what the upstream
\* handler does before it returns.
\* CreateConfig(): the default plugin configuration.
CreateConfig ==
    [RequestTokenHeader |-> "X-Request-Token-Count",
     ResponseTokenHeader |-> "X-Response-Token-Count"]

ChatBody ==
    <<LBrace, Lex("model", <<"b", "1">>), Lex("role", <<"a">>),
      Lex("content", <<"H", "i", " ", "y", "o">>), RBrace>>

\* One request for each path ServeHTTP takes before it calls next: another
\* method, another route, a body that cannot be read to its end, a body
\* that is no JSON, a chat request.
PathRequests ==
    {[m |-> "GET", p |-> <<"v1", "chat", "completions">>, b |-> ChatBody,
      e |-> FALSE],
     [m |-> "POST", p |-> <<"health">>, b |-> ChatBody, e |-> FALSE],
     [m |-> "POST", p |-> <<"v1", "chat", "completions">>, b |-> ChatBody,
      e |-> TRUE],
     [m |-> "POST", p |-> <<"v1", "chat", "completions">>,
      b |-> <<LBrace, Lex("model", <<"b", "1">>)>>, e |-> FALSE],
     [m |-> "POST", p |-> <<"v1", "chat", "completions">>, b |-> ChatBody,
      e |-> FALSE]}

InitPaths ==
    /\ \E r \in PathRequests : Arrival(CreateConfig, r.m, r.p, r.b, r.e)
    /\ call = NoCall
    /\ inflight = <<>>
    /\ buffers = <<>>

FairSpec ==
    /\ InitPaths
    /\ [][Next]_vars
    /\ WF_vars(ServeHTTP)
    /\ WF_vars(ReturnBypass)
    /\ WF_vars(ReturnCaptured)

\* ------------------------------------------- the estimators on their own
\* The characters of the texts given to estimateTokens: a lower-case
\* letter, an upper-case letter, a digit, a space and a punctuation mark.
Alphabet == {"a", "B", "1", " ", "."}

Texts == UNION {[1..n -> Alphabet] : n \in 0..MaxTextLen}

\* The texts the parts of a content array carry.
PartTexts == {<<>>, <<".">>, <<"H", "i", " ", "y", "o">>}

Parts == {PartOfLexeme(Lex(k, s)) : k \in PartLexemes, s \in PartTexts}

\* The values a MessageContent holds: nil, a string, an array of parts,
\* another JSON value.
Contents ==
    {NilContent, OtherContent}
        \cup {StringContent(s) : s \in Texts}
        \cup {PartsContent(ps) :
                 ps \in UNION {[1..n -> Parts] : n \in 0..MaxParts}}

\* The contents, roles and models of the SimpleRequests given to
\* countRequestTokens.
MessageContents ==
    {NilContent, OtherContent, StringContent(<<>>),
     StringContent(<<"H", "i", " ", "y", "o">>),
     PartsContent(<<Part(TRUE, "text", "string", <<"h", "i">>),
                    Part(TRUE, "image_url", "absent", <<>>)>>)}

Roles == {<<>>, <<"a">>}

Models == {<<>>, <<".">>, <<"b", "1">>}

Messages == {[Role |-> r, Content |-> v] : r \in Roles, v \in MessageContents}

SimpleRequests ==
    {[Model |-> m, Messages |-> ms] :
         m \in Models,
         ms \in UNION {[1..n -> Messages] : n \in 0..MaxMessages}}

\* A TokenCounter on which one estimator is about to be called, on any text,
\* any content or any request; no request is in flight.
InitPure ==
    /\ \E c \in Configs :
           Arrival(c, "GET", <<"health">>, <<>>, FALSE)
    /\ inflight = <<>>
    /\ buffers = <<>>
    /\ \/ \E s \in Texts :
              call = [NoCall EXCEPT !.fn = "estimateTokens", !.text = s]
       \/ \E v \in Contents :
              call = [NoCall EXCEPT !.fn = "estimateTokensFromContent",
                                    !.content = v]
       \/ \E r \in SimpleRequests :
              call = [NoCall EXCEPT !.fn = "countRequestTokens", !.req = r]

\* tc.estimateTokens(text) runs and returns.
CallEstimateTokens ==
    /\ call.fn = "estimateTokens"
    /\ ~call.returned
    /\ call' = [call EXCEPT !.result = estimateTokens(call.text),
                            !.returned = TRUE]
    /\ UNCHANGED <<tc, req, clientBody, pc, branch, nextCalls, nextSink,
                   nextBody, bodyReads, openAIReq, respWriter, rw, direct,
                   coreSets, up, inflight, buffers>>

\* tc.estimateTokensFromContent(content) runs and returns.
CallEstimateTokensFromContent ==
    /\ call.fn = "estimateTokensFromContent"
    /\ ~call.returned
    /\ call' = [call EXCEPT
                   !.result = estimateTokensFromContent(call.content),
                   !.returned = TRUE]
    /\ UNCHANGED <<tc, req, clientBody, pc, branch, nextCalls, nextSink,
                   nextBody, bodyReads, openAIReq, respWriter, rw, direct,
                   coreSets, up, inflight, buffers>>

\* setEstimatedTokens calls tc.countRequestTokens(req) and formats the
\* count for the request-token header.
CallCountRequestTokens ==
    /\ call.fn = "countRequestTokens"
    /\ ~call.returned
    /\ call' = [call EXCEPT
                   !.result = countRequestTokens(call.req),
                   !.header = setEstimatedTokens(tc, call.req,
                                                 ResponseError.resp)[1].value,
                   !.returned = TRUE]
    /\ UNCHANGED <<tc, req, clientBody, pc, branch, nextCalls, nextSink,
                   nextBody, bodyReads, openAIReq, respWriter, rw, direct,
                   coreSets, up, inflight, buffers>>

NextPure ==
    \/ CallEstimateTokens
    \/ CallEstimateTokensFromContent
    \/ CallCountRequestTokens

SpecPure == InitPure /\ [][NextPure]_vars

\* ------------------------------------------------------------ claims
\* The request is one ServeHTTP accounts for: next was given the
\* responseWriter (POST, the route in the path, body read and decoded).
Captured == nextSink = "respWriter"

Done == pc = "done"

\* The value Header().Get(name) returns on the client's writer.
Get(name) == rw.header[name]

\* The usage record of the captured body, and whether the body decodes.
CapturedResponse == UnmarshalResponse(respWriter.body)

CapturedUsage == CapturedResponse.resp.Usage

\* The header value is the decimal text of n.
IsDecimalOf(value, n) == IsIntText(value) /\ IntOfText(value) = n

\* C1: for an accounted request, while the upstream handler runs no status
\* and no body byte has reached the client's writer, and every token header
\* ServeHTTP decides on is in the header block that went out with the
\* status.
C1_HeldBackUntilDecided ==
    /\ (pc = "upstream" /\ Captured) => (~rw.wroteHeader /\ rw.body = <<>>)
    /\ (Done /\ Captured) =>
           \A i \in 1..Len(coreSets) :
               rw.sentHeader[coreSets[i].name] = coreSets[i].value

\* C2: for an accounted request the client's writer receives exactly one
\* WriteHeader and one Write, both after the upstream handler has returned,
\* however many the upstream handler made.
C2_ExactlyOneFinalWrite ==
    /\ (pc = "upstream" /\ Captured) =>
           (rw.writeHeaderCalls = 0 /\ rw.writeCalls = 0)
    /\ (Done /\ Captured) => (rw.writeHeaderCalls = 1 /\ rw.writeCalls = 1)

\* C3: on every path the upstream handler is called exactly once: it has
\* not been called before ServeHTTP reaches it, and from then on, through
\* the return of ServeHTTP, it has been called once.
C3_UpstreamCalledOnce ==
    /\ pc = "start" => nextCalls = 0
    /\ pc \in {"upstream", "done"} => nextCalls = 1

\* C3, witness: the cache-hit path has run to its end with one call.
C3_Witness == Done /\ branch = "estimated" /\ nextCalls = 1

\* C4: a request that is no POST, or whose path lacks /chat/completions, is
\* not accounted: no token header is set, the body is not read, next gets
\* the client's writer and the body as it arrived, and the client's writer
\* holds what the upstream handler wrote to it and nothing else.
C4_BypassUntouched ==
    (req.Method # MethodPost \/ ~Contains(req.Path, RouteFragment)) =>
        /\ coreSets = <<>>
        /\ bodyReads = 0
        /\ nextSink # "respWriter"
        /\ pc # "start" => (nextSink = "rw" /\ nextBody = clientBody)
        /\ rw = direct

\* C4, witness: a POST to /health has been answered with a status, a header
\* and a body.
C4_Witness ==
    /\ Done
    /\ req.Method = MethodPost
    /\ ~Contains(req.Path, RouteFragment)
    /\ rw.status = 500
    /\ rw.sentHeader[CacheStatusHeader] = Hit
    /\ rw.body # <<>>

\* C5: for a POST to the route whose body was read to its end, the upstream
\* handler can read exactly the bytes the client sent, whether they decode
\* or not.
C5_BodyReplayed ==
    (/\ pc # "start"
     /\ req.Method = MethodPost
     /\ Contains(req.Path, RouteFragment)
     /\ ~clientBody.err) =>
        (nextBody.buf = clientBody.buf /\ ~nextBody.err)

\* C5, witness: a body that does not decode was replayed to the upstream
\* handler.
C5_Witness ==
    /\ Done
    /\ branch = "parse_error"
    /\ Len(clientBody.buf) = 2
    /\ nextBody.buf = clientBody.buf

\* C6: captured status 200, a body that decodes, and an X-Cache-Status other
\* than exactly "Hit": each token header is set exactly when its usage count
\* is positive, to the decimal text of that count; otherwise it is unset.
C6_TrustUpstream ==
    (/\ Done
     /\ Captured
     /\ respWriter.statusCode = StatusOK
     /\ CapturedResponse.ok
     /\ Get(CacheStatusHeader) # Hit) =>
        /\ IF CapturedUsage.PromptTokens > 0
           THEN IsDecimalOf(Get(tc.requestTokenHeader),
                            CapturedUsage.PromptTokens)
           ELSE Get(tc.requestTokenHeader) = NoValue
        /\ IF CapturedUsage.CompletionTokens > 0
           THEN IsDecimalOf(Get(tc.responseTokenHeader),
                            CapturedUsage.CompletionTokens)
           ELSE Get(tc.responseTokenHeader) = NoValue

\* C6, witness: X-Cache-Status "hit", usage 15/0/15: the request-token
\* header is "15" and the response-token header is unset.
C6_Witness ==
    /\ Done
    /\ branch = "actual"
    /\ Get(CacheStatusHeader) = <<"h", "i", "t">>
    /\ CapturedUsage.PromptTokens = 15
    /\ CapturedUsage.CompletionTokens = 0
    /\ Get(tc.requestTokenHeader) = <<"1", "5">>
    /\ Get(tc.responseTokenHeader) = NoValue

\* The completion content of a response body, estimated: the sum of the
\* estimates of its choices' message contents.
RECURSIVE CompletionEstimate(_)
CompletionEstimate(body) ==
    IF body = <<>> THEN 0
    ELSE (IF Head(body).t = "choice:content"
          THEN estimateTokens(Head(body).s) ELSE 0)
         + CompletionEstimate(Tail(body))

\* C7: captured status 200, a body that decodes, X-Cache-Status "Hit": the
\* request-token header is the estimate of the request and the
\* response-token header the estimate of the completion content; with
\* content that is not empty neither header is "0".
C7_CacheHitEstimates ==
    (/\ Done
     /\ Captured
     /\ respWriter.statusCode = StatusOK
     /\ CapturedResponse.ok
     /\ Get(CacheStatusHeader) = Hit) =>
        /\ IsDecimalOf(Get(tc.requestTokenHeader),
                       countRequestTokens(openAIReq))
        /\ IsDecimalOf(Get(tc.responseTokenHeader),
                       CompletionEstimate(respWriter.body))
        /\ CompletionEstimate(respWriter.body) > 0 =>
               /\ Get(tc.requestTokenHeader) # <<"0">>
               /\ Get(tc.responseTokenHeader) # <<"0">>

\* The body has a usage object.
HasUsage(body) ==
    \E i \in 1..Len(body) :
        body[i].t \in {"prompt_tokens", "completion_tokens", "total_tokens"}

\* C8: on the cache-hit path, a body with a usage object reaches the client
\* with prompt_tokens and completion_tokens equal to the two token headers
\* and total_tokens equal to their sum.
C8_CacheHitBodyRewritten ==
    (/\ Done
     /\ branch = "estimated"
     /\ HasUsage(respWriter.body)) =>
        LET delivered == UnmarshalResponse(rw.body)
        IN  /\ delivered.ok
            /\ IsDecimalOf(Get(tc.requestTokenHeader),
                           delivered.resp.Usage.PromptTokens)
            /\ IsDecimalOf(Get(tc.responseTokenHeader),
                           delivered.resp.Usage.CompletionTokens)
            /\ delivered.resp.Usage.TotalTokens =
                   delivered.resp.Usage.PromptTokens
                   + delivered.resp.Usage.CompletionTokens

\* C9: captured status 200 and a body that does not decode: both token
\* headers are set from local estimates, the request-token header to the
\* estimate of the request, and the body reaches the client as written.
C9_UnparseableEstimated ==
    (/\ Done
     /\ Captured
     /\ respWriter.statusCode = StatusOK
     /\ ~CapturedResponse.ok) =>
        /\ IsDecimalOf(Get(tc.requestTokenHeader),
                       countRequestTokens(openAIReq))
        /\ IsIntText(Get(tc.responseTokenHeader))
        /\ rw.body = direct.body
        /\ rw.status = direct.status

\* C10: a captured status other than 200: the request-token header is set
\* to the estimate of the request and the response-token header is not set.
C10_NonOKRequestEstimate ==
    (/\ Done
     /\ Captured
     /\ respWriter.statusCode # StatusOK) =>
        /\ IsDecimalOf(Get(tc.requestTokenHeader),
                       countRequestTokens(openAIReq))
        /\ Get(tc.responseTokenHeader) = NoValue

\* The two token headers of the TokenCounter.
TokenHeaders == {tc.requestTokenHeader, tc.responseTokenHeader}

\* C11: on every path but the cache-hit path (bypass, read or parse
\* failure, non-OK status, body that does not decode, trust-upstream), at
\* every moment, the status, the body and every header other than the two
\* token headers that went out to the client, and every such header of the
\* map, are those the upstream handler wrote: the status of a response is
\* never changed.
C11_UpstreamResponsePassedThrough ==
    branch # "estimated" =>
        /\ rw.wroteHeader = direct.wroteHeader
        /\ rw.status = direct.status
        /\ rw.body = direct.body
        /\ \A h \in HeaderNames \ TokenHeaders :
               /\ rw.sentHeader[h] = direct.sentHeader[h]
               /\ rw.header[h] = direct.header[h]

\* C11, witness: the trust-upstream path has ended with the token header
\* set, after the upstream handler sent a header, a status and a body.
C11_Witness ==
    /\ Done
    /\ branch = "actual"
    /\ Get(tc.requestTokenHeader) = <<"1", "5">>
    /\ rw.status = StatusOK
    /\ rw.sentHeader[ContentTypeHeader] # NoValue
    /\ Len(rw.body) > 2

\* The request is a POST to the route whose body was read to its end.
ReadInScope ==
    /\ req.Method = MethodPost
    /\ Contains(req.Path, RouteFragment)
    /\ ~clientBody.err

\* C12: a POST to the route whose body does not decode is bypassed: next
\* gets the client's writer, no token header is set, and the client's
\* writer holds what the upstream handler wrote and nothing else.
C12_ParseFailureBypassed ==
    (/\ pc # "start"
     /\ ReadInScope
     /\ ~UnmarshalRequest(clientBody.buf).ok) =>
        /\ branch = "parse_error"
        /\ nextSink = "rw"
        /\ coreSets = <<>>
        /\ \A h \in TokenHeaders : Get(h) = NoValue
        /\ rw = direct

\* C12, witness: a request whose model is a number was answered by the
\* upstream handler with status 200 and a body.
C12_Witness ==
    /\ Done
    /\ ReadInScope
    /\ clientBody.buf[2].t = "model:number"
    /\ rw.status = StatusOK
    /\ rw.body # <<>>

\* C13: when reading the body of a POST to the route fails partway, the
\* request is bypassed and the upstream handler can still read the bytes
\* that were read before the failure.
C13_PartialBodyReplayed ==
    (/\ pc # "start"
     /\ req.Method = MethodPost
     /\ Contains(req.Path, RouteFragment)
     /\ clientBody.err) =>
        /\ branch = "read_error"
        /\ nextSink = "rw"
        /\ nextBody.buf = clientBody.buf

\* C14: every value ServeHTTP sets a token header to is the decimal text of
\* a number that is not negative, and it sets each token header at most
\* once.
C14_NonNegativeDecimalOnce ==
    \A i \in 1..Len(coreSets) :
        /\ AllDigits(coreSets[i].value)
        /\ \A j \in 1..Len(coreSets) :
               coreSets[j].name = coreSets[i].name => j = i

\* C19: when the upstream handler never calls WriteHeader the captured
\* status is 200 and ServeHTTP takes one of the paths of a 200 response.
C19_DefaultStatusOK ==
    (Captured /\ up.writeHeaders = 0) =>
        /\ respWriter.statusCode = StatusOK
        /\ Done => branch \in {"unparseable", "estimated", "actual"}

\* C19, witness: a body and no status were written, and the trust-upstream
\* path was taken.
C19_Witness ==
    /\ Done
    /\ up.writeHeaders = 0
    /\ up.writes = 1
    /\ branch = "actual"
    /\ Get(tc.responseTokenHeader) = <<"2", "5">>

\* C20: for an accounted request whose response has gone out, the status
\* ServeHTTP recorded and branches on is the status the client received.
C20_RecordedStatusIsDelivered ==
    (Captured /\ rw.wroteHeader) => respWriter.statusCode = rw.status


\* ------------------------------------------ ServeHTTP calls running at once
\* The server runs ServeHTTP on one goroutine per request, all on the same
\* TokenCounter; each call is given its own *http.Request and its own
\* http.ResponseWriter.  What a call allocates lives in buffers, by address.
Calls == 1..MaxCalls

\* The requests of the concurrent calls: two chat requests with different
\* estimates, and a request that is bypassed.
ConcRequests ==
    {[Method |-> "POST", Path |-> <<"v1", "chat", "completions">>,
      Body |-> [buf |-> <<LBrace, Lex("model", <<"b", "1">>),
                          Lex("role", <<"a">>),
                          Lex("content", <<"H", "i", " ", "y", "o">>),
                          RBrace>>,
                err |-> FALSE]],
     [Method |-> "POST", Path |-> <<"v1", "chat", "completions">>,
      Body |-> [buf |-> <<LBrace, Lex("role", <<"a">>),
                          Lex("content:[", <<>>),
                          Lex("part:text", <<"h", "i">>),
                          Lex("part:image_url", <<>>), RBrace>>,
                err |-> FALSE]],
     [Method |-> "GET", Path |-> <<"health">>,
      Body |-> [buf |-> <<LBrace, RBrace>>, err |-> FALSE]]}

\* One call the upstream handler makes on the writer it was given.
HeaderSetCall(name, value) ==
    [op |-> "Set", name |-> name, value |-> value, code |-> 0, b |-> <<>>]

WriteHeaderCall(code) ==
    [op |-> "WriteHeader", name |-> "", value |-> <<>>, code |-> code,
     b |-> <<>>]

WriteCall(b) ==
    [op |-> "Write", name |-> "", value |-> <<>>, code |-> 0, b |-> b]

\* What the upstream handler does with one request: a cached answer
\* written at once, an answer with usage written in two pieces, an error.
Scripts ==
    {<<HeaderSetCall(CacheStatusHeader, Hit),
       WriteCall(<<LBrace>>
                 \o UsageFields(<<"0">>, <<"2", "5">>, <<"2", "5">>)
                 \o <<RBrace>>)>>,
     <<WriteCall(<<LBrace, Lex("prompt_tokens", <<"1", "5">>)>>),
       WriteCall(<<Lex("completion_tokens", <<"7">>),
                   Lex("total_tokens", <<"2", "2">>), RBrace>>)>>,
     <<WriteHeaderCall(500), WriteCall(<<Lex("<html>", <<>>)>>)>>}

\* The upstream handler's call c made on the writer next was given: the
\* responseWriter w in front of sink if wrapped, sink itself if not.
UpstreamCall(c, wrapped, w, sink) ==
    CASE c.op = "Set" -> [w |-> w, sink |-> SinkSetHeader(sink, c.name, c.value)]
      [] c.op = "WriteHeader" ->
             IF wrapped THEN responseWriter_WriteHeader(w, sink, c.code)
             ELSE [w |-> w, sink |-> SinkWriteHeader(sink, c.code)]
      [] OTHER ->
             IF wrapped THEN responseWriter_Write(w, sink, c.b)
             ELSE [w |-> w, sink |-> SinkWrite(sink, c.b)]

RECURSIVE RunScript(_, _, _, _)
RunScript(script, wrapped, w, sink) ==
    IF script = <<>> THEN [w |-> w, sink |-> sink]
    ELSE LET r == UpstreamCall(Head(script), wrapped, w, sink)
         IN  RunScript(Tail(script), wrapped, r.w, r.sink)

\* ServeHTTP(rw, r) on t from entry to return with nothing else running:
\* the client's writer at the end and the body next could read.
HandledAlone(t, r, script) ==
    LET g == Gate(r)
        out == RunScript(script, g.wrap, NewResponseWriter, NewSink)
    IN  [rw |-> IF g.wrap
                THEN ApplySets(out.sink,
                               Account(t, g.openAIReq, out.w,
                                       out.sink.header).sets)
                ELSE out.sink,
         nextBody |-> g.req.Body]

NewBuffer_Pooled(heap) == 1

\* &bytes.Buffer{}: the address of a buffer no other call holds.
NewBuffer(heap) == Len(heap) + 1

\* A call of ServeHTTP that has not started: its request, what the upstream
\* handler will do with it, its writer.
NewCall(r, script) ==
    [arrived |-> r, planned |-> script, req |-> r, pc |-> "start",
     branch |-> "none", nextSink |-> "none", nextBody |-> NotCalled,
     openAIReq |-> EmptyRequest,
     respWriter |-> [body |-> 0, statusCode |-> 0],
     rw |-> NewSink, script |-> script]

\* The responseWriter of call i, its buffer read through its address.
RespWriterOf(i) ==
    IF inflight[i].nextSink = "respWriter"
    THEN [body |-> buffers[inflight[i].respWriter.body],
          statusCode |-> inflight[i].respWriter.statusCode]
    ELSE NewResponseWriter

InitConc ==
    /\ \E c \in Configs :
           Arrival(c, "GET", <<"health">>, <<>>, FALSE)
    /\ call = NoCall
    /\ buffers = <<>>
    /\ inflight \in [Calls -> {NewCall(r, script) :
                                 r \in ConcRequests, script \in Scripts}]

\* Call i runs ServeHTTP from its entry to its call of next.
ConcServeHTTP(i) ==
    /\ inflight[i].pc = "start"
    /\ LET g == Gate(inflight[i].req)
           addr == NewBuffer(buffers)
       IN  /\ buffers' =
                  (IF g.wrap /\ addr > Len(buffers)
                   THEN Append(buffers, NewResponseWriter.body)
                   ELSE buffers)
           /\ inflight' =
                  [inflight EXCEPT ![i] =
                      [@ EXCEPT
                         !.req = g.req, !.branch = g.branch,
                         !.openAIReq = g.openAIReq,
                         !.respWriter =
                             (IF g.wrap
                              THEN [body |-> addr,
                                    statusCode |-> NewResponseWriter.statusCode]
                              ELSE @),
                         !.nextSink = (IF g.wrap THEN "respWriter" ELSE "rw"),
                         !.nextBody = g.req.Body,
                         !.pc = "upstream"]]
    /\ UNCHANGED <<tc, req, clientBody, pc, branch, nextCalls, nextSink,
                   nextBody, bodyReads, openAIReq, respWriter, rw, direct,
                   coreSets, up, call>>

\* The upstream handler of call i makes its next call on its writer.
ConcUpstream(i) ==
    /\ inflight[i].pc = "upstream"
    /\ inflight[i].script # <<>>
    /\ LET wrapped == inflight[i].nextSink = "respWriter"
           r == UpstreamCall(Head(inflight[i].script), wrapped,
                             RespWriterOf(i), inflight[i].rw)
       IN  /\ buffers' =
                  (IF wrapped
                   THEN [buffers EXCEPT ![inflight[i].respWriter.body] =
                                            r.w.body]
                   ELSE buffers)
           /\ inflight' =
                  [inflight EXCEPT ![i] =
                      [@ EXCEPT
                         !.respWriter.statusCode =
                             (IF wrapped THEN r.w.statusCode ELSE @),
                         !.rw = r.sink,
                         !.script = Tail(@)]]
    /\ UNCHANGED <<tc, req, clientBody, pc, branch, nextCalls, nextSink,
                   nextBody, bodyReads, openAIReq, respWriter, rw, direct,
                   coreSets, up, call>>

\* next returns to call i, which runs ServeHTTP to its return.
ConcReturn(i) ==
    /\ inflight[i].pc = "upstream"
    /\ inflight[i].script = <<>>
    /\ LET wrapped == inflight[i].nextSink = "respWriter"
           a == Account(tc, inflight[i].openAIReq, RespWriterOf(i),
                        inflight[i].rw.header)
       IN  inflight' =
               [inflight EXCEPT ![i] =
                   [@ EXCEPT
                      !.branch = (IF wrapped THEN a.branch ELSE @),
                      !.rw = (IF wrapped THEN ApplySets(@, a.sets) ELSE @),
                      !.pc = "done"]]
    /\ UNCHANGED <<tc, req, clientBody, pc, branch, nextCalls, nextSink,
                   nextBody, bodyReads, openAIReq, respWriter, rw, direct,
                   coreSets, up, call, buffers>>

NextConc ==
    \/ \E i \in Calls : ConcServeHTTP(i)
    \/ \E i \in Calls : ConcUpstream(i)
    \/ \E i \in Calls : ConcReturn(i)

SpecConc == InitConc /\ [][NextConc]_vars

\* -------------------------------------------------- the estimators: claims
Estimated == call.fn = "estimateTokens" /\ call.returned

IsWordChar(ch) == IsLetter(ch) \/ IsDigit(ch)

\* The maximal runs of letters and digits of a text, by where they begin.
Runs(text) ==
    Cardinality({i \in 1..Len(text) :
                   IsWordChar(text[i]) /\ (i = 1 \/ ~IsWordChar(text[i - 1]))})

\* A text of words of letters and digits, one space between two words.
SpaceSeparatedWords(text) ==
    /\ text # <<>>
    /\ \A i \in 1..Len(text) : IsWordChar(text[i]) \/ text[i] = " "
    /\ text[1] # " " /\ text[Len(text)] # " "
    /\ \A i \in 1..(Len(text) - 1) : ~(text[i] = " " /\ text[i + 1] = " ")

Spaces(text) == Cardinality({i \in 1..Len(text) : text[i] = " "})

AtLeastOne(n) == IF n < 1 THEN 1 ELSE n

\* C15 as stated: for every text estimateTokens returns
\* floor(133 * runs / 100), runs the number of maximal runs of letters and
\* digits (and, for w words separated by single spaces, floor(133 * w / 100)
\* clamped to at least 1).
C15_FloorOfRuns ==
    Estimated =>
        /\ call.result = (133 * Runs(call.text)) \div 100
        /\ SpaceSeparatedWords(call.text) =>
               call.result = AtLeastOne((133 * (Spaces(call.text) + 1)) \div 100)

\* C15 amended: for every text estimateTokens returns floor(133 * runs / 100),
\* except that a non-empty text without a letter or digit yields 1; for w
\* words separated by single spaces it returns floor(133 * w / 100) clamped to
\* at least 1.
C15_FloorOfRunsClamped ==
    Estimated =>
        /\ call.result =
               (IF call.text # <<>> /\ Runs(call.text) = 0 THEN 1
                ELSE (133 * Runs(call.text)) \div 100)
        /\ SpaceSeparatedWords(call.text) =>
               call.result = AtLeastOne((133 * (Spaces(call.text) + 1)) \div 100)

C15_Witness ==
    Estimated /\ call.text = <<"B", " ", "1">> /\ call.result = 2

\* C16: estimateTokens returns 0 if and only if its text is empty; every
\* non-empty text, one without a letter or digit included, yields at least 1.
C16_ZeroOnlyForEmpty ==
    Estimated =>
        /\ call.result = 0 <=> call.text = <<>>
        /\ call.text # <<>> => call.result >= 1

C16_Witness ==
    Estimated /\ call.text = <<".", ".", ".">> /\ call.result = 1

\* What the claim gives one part of a content array.
PartShare(p) ==
    CASE p.isMap /\ p.type = "text" /\ p.textKind = "string" ->
             estimateTokens(p.text)
      [] p.isMap /\ p.type = "image_url" -> 85
      [] OTHER -> 0

RECURSIVE SumOfShares(_, _)
SumOfShares(ps, n) ==
    IF n = 0 THEN 0 ELSE SumOfShares(ps, n - 1) + PartShare(ps[n])

\* C17: estimateTokensFromContent returns 0 for nil content, the estimate
\* of s for a string s, and for an array the sum over its parts of the
\* estimate of the text of a part of type "text" with a string text, 85 for a
\* part of type "image_url", 0 for any other part; any other value yields 0,
\* and the result is always a count, never an error.
C17_ContentEstimate ==
    (call.fn = "estimateTokensFromContent" /\ call.returned) =>
        /\ call.result \in Nat
        /\ call.result =
               (CASE call.content.kind = "nil" -> 0
                  [] call.content.kind = "string" ->
                         estimateTokens(call.content.text)
                  [] call.content.kind = "parts" ->
                         SumOfShares(call.content.parts,
                                     Len(call.content.parts))
                  [] OTHER -> 0)

C17_Witness ==
    /\ call.fn = "estimateTokensFromContent"
    /\ call.returned
    /\ call.content =
           PartsContent(<<Part(TRUE, "text", "string",
                               <<"H", "i", " ", "y", "o">>),
                          Part(TRUE, "image_url", "absent", <<>>)>>)
    /\ call.result = 87

\* ------------------------------------------------ concurrent calls: claims
\* C18: with several ServeHTTP calls in flight on one TokenCounter, under
\* every interleaving of their steps, a call that has returned leaves its
\* client the token headers, status and body, and gave its upstream handler
\* the request body, that the same request and the same upstream handler
\* give when handled alone; and no step writes a field of the TokenCounter.
C18_AsIfHandledAlone ==
    /\ [](\A i \in DOMAIN inflight :
             inflight[i].pc = "done" =>
                 LET alone == HandledAlone(tc, inflight[i].arrived,
                                           inflight[i].planned)
                 IN  /\ inflight[i].rw = alone.rw
                     /\ inflight[i].nextBody = alone.nextBody)
    /\ [][tc' = tc]_vars

\* Call 1 has entered, run and returned with estimated counts while call 2,
\* which entered before it, is still between two writes of its upstream
\* handler.
C18_Witness ==
    /\ DOMAIN inflight = Calls
    /\ inflight[1].pc = "done"
    /\ inflight[1].branch = "estimated"
    /\ inflight[1].rw.header[tc.requestTokenHeader] = <<"1", "0">>
    /\ inflight[1].rw.header[tc.responseTokenHeader] = <<"2", "5">>
    /\ inflight[2].pc = "upstream"
    /\ inflight[2].nextSink = "respWriter"
    /\ Len(inflight[2].script) = 1
    /\ inflight[2].respWriter.body < inflight[1].respWriter.body
    /\ buffers[inflight[2].respWriter.body] # <<>>

\* --------------------------------------------- the request estimate: claim
\* The share of the first n messages in the claim's sum.
RECURSIVE SumOfMessages(_, _)
SumOfMessages(ms, n) ==
    IF n = 0 THEN 0
    ELSE SumOfMessages(ms, n - 1)
         + estimateTokensFromContent(ms[n].Content)
         + estimateTokens(ms[n].Role) + 4

\* C21: countRequestTokens returns the sum over the messages of (the
\* estimate of the content + the estimate of the role + 4), plus the
\* estimate of the model, plus 2; it is at least 2 for every request, one
\* without messages and with an empty model included, and the request-token
\* header written from it is its decimal and never "0".
C21_RequestEstimate ==
    (call.fn = "countRequestTokens" /\ call.returned) =>
        /\ call.result =
               SumOfMessages(call.req.Messages, Len(call.req.Messages))
               + estimateTokens(call.req.Model) + 2
        /\ call.result >= 2
        /\ IsDecimalOf(call.header, call.result)
        /\ call.header # <<"0">>

C21_Witness ==
    /\ call.fn = "countRequestTokens"
    /\ call.returned
    /\ Len(call.req.Messages) = 2
    /\ call.req.Model = <<"b", "1">>
    /\ call.result = 100
    /\ call.header = <<"1", "0", "0">>

\* ------------------------------------------------------ termination: claim
\* With the goroutine running and the call of next returning, every
\* ServeHTTP that has started returns.
EventuallyReturns == (pc = "start") ~> (pc = "done")

\* C22: ServeHTTP is never stuck and never runs on.  Before next it can
\* always take its step to the call of next; inside next, whatever the
\* request and whatever was captured (a response that does not decode
\* included), the return of next takes it to its own return; when it has
\* returned, next was called once and has returned, every Header().Set the
\* path decides on has been made, the path is one of the eight, and no
\* step is left.
C22_GateReturns ==
    /\ pc \in {"start", "upstream", "done"}
    /\ pc = "start" => nextCalls = 0 /\ ENABLED ServeHTTP
    /\ pc = "upstream" =>
           /\ nextCalls = 1
           /\ ENABLED (ReturnBypass \/ ReturnCaptured)
    /\ Done =>
           /\ nextCalls = 1
           /\ branch \in {"bypass_method", "bypass_path", "read_error",
                          "parse_error", "non_ok", "unparseable",
                          "estimated", "actual"}
           /\ Captured =>
                  /\ coreSets = Account(tc, openAIReq, respWriter,
                                        rw.header).sets
                  /\ \A k \in 1..Len(coreSets) :
                         rw.header[coreSets[k].name] = coreSets[k].value
           /\ ~ENABLED Next

C22_Witness ==
    /\ Done
    /\ branch = "unparseable"
    /\ nextCalls = 1
    /\ respWriter.statusCode = StatusOK
    /\ respWriter.body # <<>>
    /\ coreSets = <<>>
====
